---------------------------- MODULE Spec2Model ----------------------------
(***************************************************************************)
(* Messenger-ChatBot: the webhook handler of src/bot.py with its three     *)
(* module-level stores (conversation_memory, processed_messages,           *)
(* message_store), the Groq model-fallback loop and the chunked sender.    *)
(*                                                                         *)
(* Text is a sequence of one-character strings, so slicing, stripping and  *)
(* concatenation are computed as Python computes them.  A message id is a  *)
(* tuple: <<"in", n>> for an inbound mid, <<"out", n>> for the message_id  *)
(* the Send API returns.                                                   *)
(***************************************************************************)
EXTENDS Integers, Sequences, FiniteSets, TLC

\* ------------------------------------------------------------------------
\* Program constants
\* ------------------------------------------------------------------------

MEMORY_MAX_MESSAGES == 40

MEMORY_IDLE_TIMEOUT == 60

MESSAGE_CACHE_SIZE == 200

MESSAGE_STORE_SIZE == 200

\* The stride and width of the slices in send_message: text[i:i+2000].
CHUNK_SIZE == 2000

\* The excerpt of a replied-to message: replied_msg['content'][:100].
REPLY_EXCERPT_LEN == 100

GROQ_MODEL_HIERARCHY ==
    << "llama-3.3-70b-versatile",
       "meta-llama/llama-4-scout-17b-16e-instruct",
       "openai/gpt-oss-120b",
       "qwen/qwen3-32b",
       "llama-3.1-8b-instant" >>

GROQ_SYSTEM_PROMPT ==
<<
    "Y", "o", "u", " ", "a", "r", "e", " ", "P", "r", "a", "w", "n", "K", "i", "n",
    "g", ",", " ", "a", " ", "M", "e", "s", "s", "e", "n", "g", "e", "r", " ", "b",
    "o", "t", " ", "w", "i", "t", "h", " ", "a", "n", " ", "i", "n", "s", "a", "n",
    "e", "l", "y", " ", "h", "u", "m", "o", "r", "o", "u", "s", " ", "p", "e", "r",
    "s", "o", "n", "a", "l", "i", "t", "y", ".", "\n", "\n", "P", "e", "r", "s", "o",
    "n", "a", "l", "i", "t", "y", ":", "\n", "-", " ", "Y", "o", "u", " ", "L", "O",
    "V", "E", " ", "m", "a", "k", "i", "n", "g", " ", "d", "a", "d", " ", "j", "o",
    "k", "e", "s", " ", "a", "n", "d", " ", "p", "u", "n", "s", "\n", "-", " ", "F",
    "r", "i", "e", "n", "d", "l", "y", " ", "a", "n", "d", " ", "g", "e", "n", "u",
    "i", "n", "e", "l", "y", " ", "h", "e", "l", "p", "f", "u", "l", "\n", "-", " ",
    "K", "e", "e", "p", " ", "r", "e", "s", "p", "o", "n", "s", "e", "s", " ", "S",
    "H", "O", "R", "T", " ", "-", " ", "m", "a", "x", "i", "m", "u", "m", " ", "5",
    " ", "s", "e", "n", "t", "e", "n", "c", "e", "s", "\n", "\n", "R", "u", "l", "e",
    "s", ":", "\n", "-", " ", "A", "L", "W", "A", "Y", "S", " ", "r", "e", "s", "p",
    "o", "n", "d", " ", "i", "n", " ", "t", "h", "e", " ", "s", "a", "m", "e", " ",
    "l", "a", "n", "g", "u", "a", "g", "e", " ", "t", "h", "e", " ", "u", "s", "e",
    "r", " ", "i", "s", " ", "u", "s", "i", "n", "g", "\n", "-", " ", "A", "n", "s",
    "w", "e", "r", " ", "a", "n", "y", " ", "q", "u", "e", "s", "t", "i", "o", "n",
    "s", " ", "h", "e", "l", "p", "f", "u", "l", "l", "y", ",", " ", "b", "u", "t",
    " ", "a", "v", "o", "i", "d", " ", "s", "e", "n", "s", "i", "t", "i", "v", "e",
    " ", "t", "o", "p", "i", "c", "s", "\n", "-", " ", "N", "E", "V", "E", "R", " ",
    "m", "a", "k", "e", " ", "u", "p", " ", "f", "a", "c", "t", "s", " ", "-", " ",
    "i", "f", " ", "y", "o", "u", "'", "r", "e", " ", "u", "n", "s", "u", "r", "e",
    " ", "a", "b", "o", "u", "t", " ", "s", "o", "m", "e", "t", "h", "i", "n", "g",
    ",", " ", "s", "a", "y", " ", "s", "o", " ", "h", "o", "n", "e", "s", "t", "l",
    "y", "\n", "-", " ", "N", "o", " ", "m", "a", "r", "k", "d", "o", "w", "n", ",",
    " ", "b", "u", "t", " ", "f", "o", "r", "m", "a", "t", " ", "y", "o", "u", "r",
    " ", "r", "e", "s", "p", "o", "n", "s", "e", " ", "n", "i", "c", "e", "l", "y",
    " ", "a", "c", "c", "o", "r", "d", "i", "n", "g", " ", "t", "o", " ", "r", "e",
    "q", "u", "e", "s", "t", "s", " ", "l", "i", "k", "e", " ", "c", "o", "d", "i",
    "n", "g", "\n" >>

\* The string generate_response returns when the loop over the models ends.
FALLBACK_RESPONSE ==
<<
    "S", "o", "r", "r", "y", ",", " ", "I", "'", "m", " ", "h", "a", "v", "i", "n",
    "g", " ", "t", "r", "o", "u", "b", "l", "e", " ", "t", "h", "i", "n", "k", "i",
    "n", "g", " ", "r", "i", "g", "h", "t", " ", "n", "o", "w", ".", " ", "P", "l",
    "e", "a", "s", "e", " ", "t", "r", "y", " ", "a", "g", "a", "i", "n", " ", "l",
    "a", "t", "e", "r", "." >>

\* ------------------------------------------------------------------------
\* Bounds of the model
\* ------------------------------------------------------------------------

\* Inbound events delivered in one behaviour of Spec.
MaxEvents == 1

\* Steps of the clock in one behaviour.
MaxTicks == 1

\* Deliveries of the one event of SpecRedeliver.
MaxDeliveries == 2

\* Calls made by the drivers SpecMem and SpecCache after their start state.
MaxOps == 3

\* Calls of send_message made by the driver SpecSend.
MaxSends == 1

\* ------------------------------------------------------------------------
\* Python helpers
\* ------------------------------------------------------------------------

Min(a, b) == IF a < b THEN a ELSE b

\* s[i:j] for 0 <= i, 0 <= j.
Slice(s, i, j) == SubSeq(s, i + 1, Min(j, Len(s)))

\* s[-n:] for n > 0.
LastN(s, n) == IF Len(s) <= n THEN s ELSE SubSeq(s, Len(s) - n + 1, Len(s))

\* The characters str.strip() removes (the ones the model's texts use).
Whitespace == {" ", "\n", "\t", "\r"}

\* str.strip() looks for the first character it keeps from the left end and
\* for the last one from the right end.
RECURSIVE FirstKept(_, _)
FirstKept(s, i) ==
    IF i > Len(s) THEN i
    ELSE IF s[i] \in Whitespace THEN FirstKept(s, i + 1) ELSE i

RECURSIVE LastKept(_, _)
LastKept(s, j) ==
    IF j < 1 THEN j
    ELSE IF s[j] \in Whitespace THEN LastKept(s, j - 1) ELSE j

\* str.strip(): the text between its first and its last non-blank character.
Strip(s) ==
    IF FirstKept(s, 1) > Len(s) THEN <<>>
    ELSE SubSeq(s, FirstKept(s, 1), LastKept(s, Len(s)))

\* ChunkStarts without the start of a last, shorter slice.
ChunkStartsOfFullOnly(n) ==
    [k \in 1..(n \div CHUNK_SIZE) |-> (k - 1) * CHUNK_SIZE]

\* range(0, n, CHUNK_SIZE) as the sequence of its values.
ChunkStarts(n) ==
    [k \in 1..((n + CHUNK_SIZE - 1) \div CHUNK_SIZE) |-> (k - 1) * CHUNK_SIZE]

\* chunks = [text[i:i+2000] for i in range(0, len(text), 2000)]
Chunks(text) ==
    LET starts == ChunkStarts(Len(text))
    IN  [k \in 1..Len(starts) |-> Slice(text, starts[k], starts[k] + CHUNK_SIZE)]

Turn(role, content) == [role |-> role, content |-> content]

\* ------------------------------------------------------------------------
\* Conversation memory: user id -> [messages, last_active]
\* ------------------------------------------------------------------------

NoMemory == [u \in {} |-> 0]

FreshRecord(t) == [messages |-> <<>>, last_active |-> t]

\* IsExpired with >= for >.
IsExpiredAtTimeout(current_time, last_active) ==
    current_time - last_active >= MEMORY_IDLE_TIMEOUT

\* The expiry test of get_user_memory.
IsExpired(current_time, last_active) ==
    current_time - last_active > MEMORY_IDLE_TIMEOUT

\* get_user_memory: the memory it leaves and the list it returns.  live says
\* whether the returned list is the record's own list object (line 49) or a new
\* empty list (lines 48 and 53): an append to the record's list shows through
\* the former only.
get_user_memory(mem, user_id, current_time) ==
    IF user_id \in DOMAIN mem
    THEN IF IsExpired(current_time, mem[user_id].last_active)
         THEN [memory  |-> [mem EXCEPT ![user_id] = FreshRecord(current_time)],
               history |-> <<>>, live |-> FALSE]
         ELSE [memory  |-> mem,
               history |-> mem[user_id].messages, live |-> TRUE]
    ELSE [memory  |-> mem @@ (user_id :> FreshRecord(current_time)),
          history |-> <<>>, live |-> FALSE]

\* TrimMessages with [:MEMORY_MAX_MESSAGES] for [-MEMORY_MAX_MESSAGES:].
TrimKeepsOldest(msgs) ==
    IF Len(msgs) > MEMORY_MAX_MESSAGES
    THEN SubSeq(msgs, 1, MEMORY_MAX_MESSAGES)
    ELSE msgs

\* The trim that ends add_to_memory.
TrimMessages(msgs) ==
    IF Len(msgs) > MEMORY_MAX_MESSAGES
    THEN LastN(msgs, MEMORY_MAX_MESSAGES)
    ELSE msgs

add_to_memory(mem, user_id, role, content, t) ==
    LET m0 == IF user_id \in DOMAIN mem THEN mem
              ELSE mem @@ (user_id :> FreshRecord(t))
        appended == Append(m0[user_id].messages, Turn(role, content))
    IN  [m0 EXCEPT ![user_id] =
            [messages |-> TrimMessages(appended), last_active |-> t]]

\* The list generate_response holds as history once add_to_memory has appended
\* the user turn: the record's own list has grown by that turn (the trim rebinds
\* the record's field to a copy and leaves this list alone); a new empty list
\* has not.
HistoryAfterAppend(got, role, content) ==
    IF got.live THEN Append(got.history, Turn(role, content)) ELSE got.history

\* messages = [system]; messages.extend(history); messages.append(user turn)
BuildMessages(history, prompt) ==
    <<Turn("system", GROQ_SYSTEM_PROMPT)>> \o history \o <<Turn("user", prompt)>>

\* ------------------------------------------------------------------------
\* Reply cache: message_store, a dict in insertion order, as the sequence of
\* its items
\* ------------------------------------------------------------------------

StoreKeys(store) == {store[i].mid : i \in 1..Len(store)}

StoreGet(store, mid) ==
    store[CHOOSE i \in 1..Len(store) : store[i].mid = mid]

\* EvictIfFull with popitem(), which removes the newest item, for the delete
\* of the first key.
EvictNewestIfFull(store) ==
    IF Len(store) >= MESSAGE_STORE_SIZE
    THEN SubSeq(store, 1, Len(store) - 1)
    ELSE store

\* del message_store[next(iter(message_store))] when the dict is at capacity.
EvictIfFull(store) ==
    IF Len(store) >= MESSAGE_STORE_SIZE THEN Tail(store) ELSE store

\* message_store[mid] = {...}: a key the dict holds keeps its place.
StorePut(store, mid, content, role) ==
    LET item == [mid |-> mid, content |-> content, role |-> role]
    IN  IF mid \in StoreKeys(store)
        THEN [i \in 1..Len(store) |-> IF store[i].mid = mid THEN item ELSE store[i]]
        ELSE Append(store, item)

cache_message(store, mid, content, role) ==
    StorePut(EvictIfFull(store), mid, content, role)

\* ------------------------------------------------------------------------
\* Dedup set
\* ------------------------------------------------------------------------

\* processed_messages.add(message_id), then pop() when the set has outgrown
\* MESSAGE_CACHE_SIZE.  set.pop() removes an arbitrary element: victim is the
\* one it removes, any element of the set, the id just added included.
PopVictims(added) ==
    IF Cardinality(added) > MESSAGE_CACHE_SIZE THEN added ELSE {}

MarkProcessed(processed, message_id, victim) ==
    LET added == processed \cup {message_id}
    IN  IF PopVictims(added) = {} THEN added ELSE added \ {victim}

\* ------------------------------------------------------------------------
\* Reply context
\* ------------------------------------------------------------------------

RoleName(role) ==
    IF role = "assistant" THEN <<"B", "o", "t">> ELSE <<"U", "s", "e", "r">>

\* f"[Replying to {role_name}: \"{reply_content}\"]\n"
ReplyContext(replied_msg) ==
    <<"[", "R", "e", "p", "l", "y", "i", "n", "g", " ", "t", "o", " ">>
      \o RoleName(replied_msg.role)
      \o <<":", " ", "\"">>
      \o Slice(replied_msg.content, 0, REPLY_EXCERPT_LEN)
      \o <<"\"", "]", "\n">>

NoReply == <<"none">>

\* full_message = reply_context + message_text, the store being the one that
\* already holds the inbound message itself.
FullMessage(store, reply_to, message_text) ==
    IF reply_to # NoReply /\ reply_to \in StoreKeys(store)
    THEN ReplyContext(StoreGet(store, reply_to)) \o message_text
    ELSE message_text

\* ------------------------------------------------------------------------
\* State
\* ------------------------------------------------------------------------

VARIABLES
    conversation_memory,  \* user id -> [messages, last_active]
    processed_messages,   \* the dedup set
    message_store,        \* the reply cache
    now,                  \* time.time()
    pc,                   \* where the handler stands: idle, loop, typing_on,
                          \* generate, request, send, typing_off
    queue,                \* the events of the request not yet looked at
    message_id,           \* handle_messages: locals of the turn
    sender_id,
    full_message,
    messages,             \* generate_response: the list built for the models
    model_i,              \* generate_response: index of the model being tried
    gen_result,           \* how generate_response ended: pending, model, fallback,
                          \* raised
    response_text,        \* what generate_response returned
    chunk_i,              \* send_message: index of the chunk being sent
    status,               \* the HTTP status of the last request: none while it runs
    turns,                \* every turn begun, in order: its event, what the
                          \* stores held for it, its prompt, and whether it ran
                          \* to its end
    groq_log,             \* the completion requests of this turn: [model, messages]
    last_outcome,         \* how the last of them was answered
    sink_log,             \* the Send API calls of this turn
    history0,             \* the value get_user_memory returned in this turn
    next_in,              \* number of the next new inbound mid
    next_out,             \* number of the next message_id of the Send API
    last_event,           \* the last text event delivered
    n_events,             \* events delivered so far
    op,                   \* drivers: the last call made and what it saw
    calls,                \* drivers: the calls made since the stores were empty
    threads,              \* threaded server: where each request thread stands,
                          \* and its locals
    record_id             \* threaded server: user id -> id() of the record dict
                          \* conversation_memory holds for the user

stores == <<conversation_memory, processed_messages, message_store>>

locals == <<message_id, sender_id, full_message, messages, model_i, gen_result,
            response_text, chunk_i>>

logs == <<turns, groq_log, last_outcome, sink_log, history0>>

platform == <<next_in, next_out, last_event, n_events>>

concurrent == <<threads, record_id>>

driver == <<op, calls, concurrent>>

vars == <<stores, now, pc, queue, locals, status, logs, platform, driver>>

\* ------------------------------------------------------------------------
\* Inputs
\* ------------------------------------------------------------------------

Users == {"u1", "u2"}

\* message text of the inbound events
Texts == { <<"h", "i">> }

\* choices[0].message.content of a successful completion
Contents == { <<" ", "o", "k", "\n">>, <<"\n", " ">> }

\* A completion request: 200 with a usable body, 429, another error status
\* (raise_for_status), no response (ConnectionError, Timeout), or 200 with a
\* JSON body that has no choices[0].message.content.
GroqOutcomes ==
    {[kind |-> "ok", content |-> c] : c \in Contents}
      \cup {[kind |-> k, content |-> <<>>] :
              k \in {"rate_limited", "http_error", "transport_error", "malformed"}}

\* A Send API call made by send_message.
SendOutcomes == {"ok_with_id", "ok_without_id", "http_error", "transport_error"}

\* A Send API call made by send_action: the status is not looked at.
ActionOutcomes == {"ok", "http_error", "transport_error"}

NoEvent == [kind |-> "none"]

NoOutcome == [kind |-> "none", content |-> <<>>]

\* event['message'].get('mid') of a message without a mid: None.
NoMid == <<"None", 0>>

\* An event without event['sender']['id'].
NoSender == "absent"

\* What a turn notes when its event names no reply target the cache holds.
NoTarget == [role |-> "none", content |-> <<>>]

\* The request threads of the server: two requests may be served at a time.
Threads == {"t1", "t2"}

\* A thread that serves no request and has served none.
IdleThread ==
    [pc |-> "idle", ev |-> NoEvent, full_message |-> <<>>, user_data |-> 0,
     adding |-> NoTarget, after_add |-> "none", added |-> <<>>, model_i |-> 0,
     response_text |-> <<>>, chunk_i |-> 0, status |-> "none"]

TextEvent(n, sender, text, reply_to) ==
    [kind |-> "text", mid |-> <<"in", n>>, sender |-> sender, text |-> text,
     reply_to |-> reply_to]

\* The events the platform may deliver next: a new text message, the last text
\* event again (a webhook retry), a delivery or read receipt, a message
\* without text.
NewTextEvents(nxt, out) ==
    {TextEvent(nxt, u, t, r) :
        u \in Users, t \in Texts,
        r \in {NoReply, <<"out", out - 1>>, <<"in", nxt - 1>>}}

NextEvents(last, nxt, out) ==
    NewTextEvents(nxt, out)
      \cup (IF last = NoEvent THEN {} ELSE {last})
      \cup {[kind |-> "receipt"], [kind |-> "attachment"]}

IsNew(ev, nxt) == ev.kind = "text" /\ ev.mid = <<"in", nxt>>

\* The requests of 1..n events.
RECURSIVE Batches(_, _, _, _)
Batches(last, nxt, out, n) ==
    IF n <= 0 THEN {<<>>}
    ELSE {<<>>} \cup
         UNION { { <<ev>> \o rest :
                     rest \in Batches(IF ev.kind = "text" THEN ev ELSE last,
                                      IF IsNew(ev, nxt) THEN nxt + 1 ELSE nxt,
                                      out, n - 1) } :
                 ev \in NextEvents(last, nxt, out) }

RECURSIVE LastText(_, _)
LastText(evs, last) ==
    IF evs = <<>> THEN last
    ELSE LastText(Tail(evs), IF Head(evs).kind = "text" THEN Head(evs) ELSE last)

\* How many new mids a request uses up.
NewCount(evs, nxt) ==
    Cardinality({evs[i].mid[2] :
                   i \in {j \in 1..Len(evs) : evs[j].kind = "text" /\ evs[j].mid[2] >= nxt}})

\* ------------------------------------------------------------------------
\* Start states: the stores after w complete turns of one user, each answered
\* by the first model and sent in one call that returned a message_id
\* ------------------------------------------------------------------------

RECURSIVE Decimal(_)
Decimal(n) ==
    LET digit == <<"0", "1", "2", "3", "4", "5", "6", "7", "8", "9">>[(n % 10) + 1]
    IN  IF n < 10 THEN <<digit>> ELSE Append(Decimal(n \div 10), digit)

WarmUser == "u1"

WarmText(k) == <<"m">> \o Decimal(k)

WarmReply(k) == <<"r">> \o Decimal(k)

WarmEvent(k) == TextEvent(k, WarmUser, WarmText(k), NoReply)

\* One such turn, from the stores w to the stores after it.
WarmTurn(w, k) ==
    LET got == get_user_memory(w.memory, WarmUser, 0)
        mem1 == add_to_memory(got.memory, WarmUser, "user", WarmText(k), 0)
    IN  [memory    |-> add_to_memory(mem1, WarmUser, "assistant", WarmReply(k), 0),
         processed |-> MarkProcessed(w.processed, <<"in", k>>, <<"in", k>>),
         store     |-> cache_message(
                           cache_message(w.store, <<"in", k>>, WarmText(k), "user"),
                           <<"out", k>>, WarmReply(k), "assistant")]

WarmTurns(k) ==
    [i \in 1..(2 * k) |->
        IF i % 2 = 1 THEN Turn("user", WarmText((i + 1) \div 2))
        ELSE Turn("assistant", WarmReply(i \div 2))]

WarmItems(k) ==
    [i \in 1..(2 * k) |->
        IF i % 2 = 1
        THEN [mid |-> <<"in", (i + 1) \div 2>>, content |-> WarmText((i + 1) \div 2),
              role |-> "user"]
        ELSE [mid |-> <<"out", i \div 2>>, content |-> WarmReply(i \div 2),
              role |-> "assistant"]]

\* The stores after k such turns, for k <= MESSAGE_CACHE_SIZE.
Warm(k) ==
    [memory    |-> IF k = 0 THEN NoMemory
                   ELSE (WarmUser :> [messages |-> LastN(WarmTurns(k), MEMORY_MAX_MESSAGES),
                                      last_active |-> 0]),
     processed |-> {<<"in", i>> : i \in 1..k},
     store     |-> LastN(WarmItems(k), MESSAGE_STORE_SIZE)]

\* Warm(w) is what the program's own operations make of the empty stores.
WarmReached(w) == \A k \in 1..w : Warm(k) = WarmTurn(Warm(k - 1), k)

\* Turns before the behaviour starts: none, one, and as many as fill a record.
WarmLevels == {0, 1, MEMORY_MAX_MESSAGES \div 2}

\* No request is being served, none has been, and w mids of each kind are used.
Quiet(w) ==
    /\ now = 0
    /\ pc = "idle"
    /\ queue = <<>>
    /\ message_id = NoReply
    /\ sender_id = "none"
    /\ full_message = <<>>
    /\ messages = <<>>
    /\ model_i = 0
    /\ gen_result = "pending"
    /\ response_text = <<>>
    /\ chunk_i = 0
    /\ status = "none"
    /\ turns = <<>>
    /\ groq_log = <<>>
    /\ last_outcome = NoOutcome
    /\ sink_log = <<>>
    /\ history0 = <<>>
    /\ next_in = w + 1
    /\ next_out = w + 1
    /\ last_event = IF w = 0 THEN NoEvent ELSE WarmEvent(w)
    /\ n_events = 0
    /\ threads = [t \in Threads |-> IdleThread]
    /\ record_id = [u \in Users |-> IF w > 0 /\ u = WarmUser THEN 1 ELSE 0]

NoOp == [name |-> "none", n |-> 0]

InitAt(w) ==
    /\ WarmReached(w)
    /\ conversation_memory = Warm(w).memory
    /\ processed_messages = Warm(w).processed
    /\ message_store = Warm(w).store
    /\ Quiet(w)
    /\ op = NoOp
    /\ calls = <<>>

Init == \E w \in WarmLevels : InitAt(w)

\* ------------------------------------------------------------------------
\* handle_messages
\* ------------------------------------------------------------------------

\* The webhook delivers a request with an object the handler serves, while
\* fewer than limit events have been delivered.
Request(evs, limit) ==
    /\ pc = "idle"
    /\ n_events + Len(evs) <= limit
    /\ pc' = "loop"
    /\ queue' = evs
    /\ status' = "none"
    /\ n_events' = n_events + Len(evs)
    /\ next_in' = next_in + NewCount(evs, next_in)
    /\ last_event' = LastText(evs, last_event)
    /\ message_id' = NoReply
    /\ sender_id' = "none"
    /\ full_message' = <<>>
    /\ messages' = <<>>
    /\ model_i' = 0
    /\ gen_result' = "pending"
    /\ response_text' = <<>>
    /\ chunk_i' = 0
    /\ groq_log' = <<>>
    /\ last_outcome' = NoOutcome
    /\ sink_log' = <<>>
    /\ history0' = <<>>
    /\ UNCHANGED <<stores, now, turns, next_out, driver>>

HandleRequest(evs) == Request(evs, MaxEvents)

\* data.get('object') not in ['page', 'instagram']
UnknownObject ==
    /\ pc = "idle"
    /\ status' = "404"
    /\ UNCHANGED <<stores, now, pc, queue, locals, logs, platform, driver>>

\* The clock moves before a request that is still to come, at most MaxTicks
\* times.
Tick(d) ==
    /\ pc = "idle"
    /\ n_events < MaxEvents
    /\ now + d <= MaxTicks * (MEMORY_IDLE_TIMEOUT + 1)
    /\ now' = now + d
    /\ UNCHANGED <<stores, pc, queue, locals, status, logs, platform, driver>>

\* Skips without the test of line 166.
SkipsWithoutDedup(ev) ==
    IF ev.kind = "receipt" THEN TRUE
    ELSE IF ev.kind # "text" THEN TRUE
    ELSE FALSE

\* The three ways the loop passes over an event.
Skips(ev) ==
    IF ev.kind = "receipt" THEN TRUE
    ELSE IF ev.kind # "text" THEN TRUE
    ELSE ev.mid \in processed_messages

SkipEvent ==
    /\ pc = "loop"
    /\ queue # <<>>
    /\ Skips(Head(queue))
    /\ queue' = Tail(queue)
    /\ UNCHANGED <<stores, now, pc, locals, status, logs, platform, driver>>

\* What the log of turns keeps of a turn when it begins: the event, the item
\* the cache held for its reply target and the size of the dedup set when it
\* arrived, and the id the dedup set dropped for it.
TurnEntry(ev, prompt, victim) ==
    [mid |-> ev.mid, sender |-> ev.sender, text |-> ev.text,
     prompt |-> prompt, done |-> FALSE,
     target |-> IF ev.reply_to \in StoreKeys(message_store)
                THEN [role |-> StoreGet(message_store, ev.reply_to).role,
                      content |-> StoreGet(message_store, ev.reply_to).content]
                ELSE NoTarget,
     held |-> Cardinality(processed_messages),
     victim |-> IF PopVictims(processed_messages \cup {ev.mid}) = {}
                THEN NoReply ELSE victim]

\* Lines 165-192: mark the mid, cache the message, resolve the reply context.
\* event['sender']['id'] of an event without it raises KeyError at line 172,
\* after the mid is marked: the request ends with status 500.
BeginTurn ==
    /\ pc = "loop"
    /\ queue # <<>>
    /\ ~Skips(Head(queue))
    /\ LET ev == Head(queue)
           added == processed_messages \cup {ev.mid}
           store1 == cache_message(message_store, ev.mid, ev.text, "user")
           prompt == FullMessage(store1, ev.reply_to, ev.text)
       IN  /\ message_id' = ev.mid
           /\ IF ev.sender = NoSender
              THEN /\ \E victim \in (IF PopVictims(added) = {} THEN {ev.mid}
                                       ELSE PopVictims(added)) :
                          /\ processed_messages' =
                                 MarkProcessed(processed_messages, ev.mid, victim)
                          /\ turns' = Append(turns, TurnEntry(ev, <<>>, victim))
                   /\ pc' = "idle"
                   /\ queue' = <<>>
                   /\ status' = "500"
                   /\ UNCHANGED <<message_store, sender_id, full_message>>
              ELSE /\ \E victim \in (IF PopVictims(added) = {} THEN {ev.mid}
                                       ELSE PopVictims(added)) :
                          /\ processed_messages' =
                                 MarkProcessed(processed_messages, ev.mid, victim)
                          /\ turns' = Append(turns, TurnEntry(ev, prompt, victim))
                   /\ message_store' = store1
                   /\ sender_id' = ev.sender
                   /\ full_message' = prompt
                   /\ queue' = Tail(queue)
                   /\ pc' = "typing_on"
                   /\ UNCHANGED status
    /\ messages' = <<>>
    /\ model_i' = 0
    /\ gen_result' = "pending"
    /\ response_text' = <<>>
    /\ chunk_i' = 0
    /\ groq_log' = <<>>
    /\ last_outcome' = NoOutcome
    /\ sink_log' = <<>>
    /\ history0' = <<>>
    /\ UNCHANGED <<conversation_memory, now, platform, driver>>

\* What the log keeps of a Send API call.  send_action looks at neither the
\* status nor the body; send_message tells a response with a message_id, a
\* response without one and a RequestException apart.
SinkCall(kind, text, result) ==
    [kind |-> kind, recipient |-> sender_id, text |-> text, result |-> result]

SendResult(outcome) ==
    IF outcome \in {"http_error", "transport_error"} THEN "failed" ELSE outcome

\* What the log keeps of a call of send_message: the call, and the message_id
\* of the response when it has one.
MessageCall(text, outcome, mid) ==
    [kind |-> "message", recipient |-> sender_id, text |-> text,
     result |-> SendResult(outcome),
     mid |-> IF outcome = "ok_with_id" THEN mid ELSE NoReply]

\* send_action has no except clause: what requests.post raises leaves
\* handle_messages, the request ends with status 500 and the rest of its
\* events is dropped.
ActionRaises(outcome) == outcome = "transport_error"

\* send_action(sender_id, "typing_on")
TypingOn(outcome) ==
    /\ pc = "typing_on"
    /\ sink_log' = Append(sink_log, SinkCall("typing_on", <<>>, "unchecked"))
    /\ IF ActionRaises(outcome)
       THEN /\ pc' = "idle"
            /\ queue' = <<>>
            /\ status' = "500"
       ELSE /\ pc' = "generate"
            /\ UNCHANGED <<queue, status>>
    /\ UNCHANGED <<stores, now, locals, turns, groq_log, last_outcome, history0,
                   platform, driver>>

\* generate_response, lines 75-83.
StartGenerate ==
    /\ pc = "generate"
    /\ LET got == get_user_memory(conversation_memory, sender_id, now)
       IN  /\ conversation_memory' =
                  add_to_memory(got.memory, sender_id, "user", full_message, now)
           /\ messages' = BuildMessages(HistoryAfterAppend(got, "user", full_message),
                                        full_message)
           /\ history0' = got.history
    /\ model_i' = 1
    /\ pc' = "request"
    /\ UNCHANGED <<processed_messages, message_store, now, queue, message_id,
                   sender_id, full_message, gen_result, response_text, chunk_i,
                   status, turns, groq_log, last_outcome, sink_log, platform,
                   driver>>

\* TriesNext with an except clause that catches requests.HTTPError only.
TriesNextHttpOnly(outcome) ==
    outcome.kind \in {"rate_limited", "http_error"}

\* The attempts the except clause of the loop catches, and the 429.
TriesNext(outcome) ==
    outcome.kind \in {"rate_limited", "http_error", "transport_error"}

\* response.json()["choices"][0]["message"]["content"] on a body without it
\* raises KeyError, IndexError or TypeError: none is a RequestException.
GroqRaises(outcome) == outcome.kind = "malformed"

\* The log of turns once the last of them has run to its end.
Done(log) == [log EXCEPT ![Len(log)].done = TRUE]

\* send_message entered with text: where the handler stands next.
AfterGenerate(text) == IF Chunks(text) = <<>> THEN "typing_off" ELSE "send"

\* One pass of the loop over GROQ_MODEL_HIERARCHY, and the return after the
\* last one.
GroqRequest(outcome) ==
    /\ pc = "request"
    /\ groq_log' = Append(groq_log, [model |-> GROQ_MODEL_HIERARCHY[model_i],
                                     messages |-> messages])
    /\ last_outcome' = outcome
    /\ IF GroqRaises(outcome)
       THEN /\ pc' = "idle"
            /\ queue' = <<>>
            /\ status' = "500"
            /\ gen_result' = "raised"
            /\ UNCHANGED <<conversation_memory, model_i, response_text, chunk_i>>
       ELSE IF TriesNext(outcome)
       THEN IF model_i < Len(GROQ_MODEL_HIERARCHY)
            THEN /\ model_i' = model_i + 1
                 /\ UNCHANGED <<conversation_memory, pc, queue, status, gen_result,
                                response_text, chunk_i>>
            ELSE /\ gen_result' = "fallback"
                 /\ response_text' = FALLBACK_RESPONSE
                 /\ chunk_i' = 1
                 /\ pc' = AfterGenerate(FALLBACK_RESPONSE)
                 /\ UNCHANGED <<conversation_memory, model_i, queue, status>>
       ELSE LET result == Strip(outcome.content)
            IN  /\ conversation_memory' =
                       add_to_memory(conversation_memory, sender_id, "assistant",
                                     result, now)
                /\ gen_result' = "model"
                /\ response_text' = result
                /\ chunk_i' = 1
                /\ pc' = AfterGenerate(result)
                /\ UNCHANGED <<model_i, queue, status>>
    /\ UNCHANGED <<processed_messages, message_store, now, message_id, sender_id,
                   full_message, messages, turns, sink_log, history0, platform,
                   driver>>

\* Caches with a send_message that caches nothing.
CachesNothing(outcome) == FALSE

\* The sends whose response carries a message_id to cache.
Caches(outcome) == outcome = "ok_with_id"

\* SendChunk with a send_message that leaves its loop at the first call that
\* fails.
SendChunkStopsOnFailure(outcome) ==
    /\ pc = "send"
    /\ LET chunks == Chunks(response_text)
           chunk == chunks[chunk_i]
       IN  /\ sink_log' = Append(sink_log,
                                  MessageCall(chunk, outcome, <<"out", next_out>>))
           /\ IF Caches(outcome)
              THEN /\ message_store' = cache_message(message_store, <<"out", next_out>>,
                                                     chunk, "assistant")
                   /\ next_out' = next_out + 1
              ELSE UNCHANGED <<message_store, next_out>>
           /\ IF chunk_i < Len(chunks) /\ SendResult(outcome) # "failed"
              THEN /\ chunk_i' = chunk_i + 1
                   /\ pc' = "send"
              ELSE /\ chunk_i' = chunk_i
                   /\ pc' = "typing_off"
    /\ UNCHANGED <<conversation_memory, processed_messages, now, queue, message_id,
                   sender_id, full_message, messages, model_i, gen_result,
                   response_text, status, turns, groq_log, last_outcome, history0,
                   next_in, last_event, n_events, driver>>

\* One pass of the loop of send_message.
SendChunk(outcome) ==
    /\ pc = "send"
    /\ LET chunks == Chunks(response_text)
           chunk == chunks[chunk_i]
       IN  /\ sink_log' = Append(sink_log,
                                  MessageCall(chunk, outcome, <<"out", next_out>>))
           /\ IF Caches(outcome)
              THEN /\ message_store' = cache_message(message_store, <<"out", next_out>>,
                                                     chunk, "assistant")
                   /\ next_out' = next_out + 1
              ELSE UNCHANGED <<message_store, next_out>>
           /\ IF chunk_i < Len(chunks)
              THEN /\ chunk_i' = chunk_i + 1
                   /\ pc' = "send"
              ELSE /\ chunk_i' = chunk_i
                   /\ pc' = "typing_off"
    /\ UNCHANGED <<conversation_memory, processed_messages, now, queue, message_id,
                   sender_id, full_message, messages, model_i, gen_result,
                   response_text, status, turns, groq_log, last_outcome, history0,
                   next_in, last_event, n_events, driver>>

\* send_action(sender_id, "typing_off"), the end of the turn.
TypingOff(outcome) ==
    /\ pc = "typing_off"
    /\ sink_log' = Append(sink_log, SinkCall("typing_off", <<>>, "unchecked"))
    /\ IF ActionRaises(outcome)
       THEN /\ pc' = "idle"
            /\ queue' = <<>>
            /\ status' = "500"
            /\ UNCHANGED turns
       ELSE /\ pc' = "loop"
            /\ turns' = Done(turns)
            /\ UNCHANGED <<queue, status>>
    /\ UNCHANGED <<stores, now, locals, groq_log, last_outcome, history0, platform,
                   driver>>

\* return jsonify({'status': 'success'}), 200
ReturnSuccess ==
    /\ pc = "loop"
    /\ queue = <<>>
    /\ pc' = "idle"
    /\ status' = "200"
    /\ UNCHANGED <<stores, now, queue, locals, logs, platform, driver>>

\* The steps of a request once it is in.
HandlerStep ==
    \/ SkipEvent
    \/ BeginTurn
    \/ \E outcome \in ActionOutcomes : TypingOn(outcome)
    \/ StartGenerate
    \/ \E outcome \in GroqOutcomes : GroqRequest(outcome)
    \/ \E outcome \in SendOutcomes : SendChunk(outcome)
    \/ \E outcome \in ActionOutcomes : TypingOff(outcome)
    \/ ReturnSuccess

Next ==
    \/ \E evs \in Batches(last_event, next_in, next_out, MaxEvents - n_events) :
          HandleRequest(evs)
    \/ UnknownObject
    \/ Tick(MEMORY_IDLE_TIMEOUT + 1)
    \/ HandlerStep

Spec == Init /\ [][Next]_vars

\* ------------------------------------------------------------------------
\* SpecRedeliver: one new text event, then webhook retries of that event and
\* nothing else, from stores that are empty, one short of full, and full
\* ------------------------------------------------------------------------

RedeliverLevels == {0, MESSAGE_CACHE_SIZE - 1, MESSAGE_CACHE_SIZE}

InitRedeliver == \E w \in RedeliverLevels : InitAt(w)

FirstDelivery(ev) ==
    /\ n_events = 0
    /\ Request(<<ev>>, MaxDeliveries)

Redelivery ==
    /\ n_events > 0
    /\ Request(<<last_event>>, MaxDeliveries)

NextRedeliver ==
    \/ \E t \in Texts : FirstDelivery(TextEvent(next_in, "u2", t, NoReply))
    \/ Redelivery
    \/ HandlerStep

SpecRedeliver == InitRedeliver /\ [][NextRedeliver]_vars

\* ------------------------------------------------------------------------
\* Properties of the handler
\* ------------------------------------------------------------------------

RequestErrors == {"rate_limited", "http_error", "transport_error"}

\* result is content without the blanks at its two ends.
IsTrimOf(result, content) ==
    \E i, j \in 0..Len(content) :
        /\ i + j <= Len(content)
        /\ result = SubSeq(content, i + 1, Len(content) - j)
        /\ \A k \in 1..i : content[k] \in Whitespace
        /\ \A k \in (Len(content) - j + 1)..Len(content) : content[k] \in Whitespace
        /\ result # <<>> =>
              result[1] \notin Whitespace /\ result[Len(result)] \notin Whitespace

\* C3: an event with mid m followed at once by a second event with the same
\* mid is processed once, whatever the dedup set held: no two turns that ran
\* to their end carry the same mid (the events of SpecRedeliver all carry the
\* one mid).
C3_OneTurnPerMid ==
    \A i, j \in 1..Len(turns) :
        (turns[i].done /\ turns[j].done /\ turns[i].mid = turns[j].mid) => i = j

\* C4: the models are requested in list order, each at most once; a 429 or a
\* request error makes the next model the one to try; the call returns the
\* trimmed content of the first model that answers, and requests no model
\* after it.
C4_FallbackInOrder ==
    /\ Len(groq_log) <= Len(GROQ_MODEL_HIERARCHY)
    /\ \A i \in 1..Len(groq_log) : groq_log[i].model = GROQ_MODEL_HIERARCHY[i]
    /\ last_outcome.kind \in RequestErrors =>
          IF Len(groq_log) < Len(GROQ_MODEL_HIERARCHY)
          THEN pc = "request" /\ model_i = Len(groq_log) + 1
          ELSE gen_result = "fallback"
    /\ last_outcome.kind = "ok" => gen_result = "model"
    /\ gen_result = "model" =>
          /\ last_outcome.kind = "ok"
          /\ IsTrimOf(response_text, last_outcome.content)
          /\ pc # "request"
          /\ model_i = Len(groq_log)

\* C4's case: the first model answered 429 or failed, the second answered,
\* and its content had blanks to trim.
C4_Witness ==
    /\ gen_result = "model"
    /\ Len(groq_log) = 2
    /\ response_text # <<>>
    /\ response_text # last_outcome.content
    /\ pc = "typing_off"

\* C5: a generate_response call none of whose attempts got a usable answer
\* (429, error status, no response, or a body without
\* choices[0].message.content) returns the fallback string and raises nothing.
C5_FallbackWhenAllFail ==
    (groq_log # <<>> /\ pc # "request" /\ last_outcome.kind # "ok") =>
        (gen_result = "fallback" /\ response_text = FALLBACK_RESPONSE)

\* C6: the list sent to each model is the system prompt, the history
\* get_user_memory returned, and the new user message once, at the end.
C6_MessagesSentOnce ==
    \A i \in 1..Len(groq_log) :
        groq_log[i].messages =
            <<Turn("system", GROQ_SYSTEM_PROMPT)>> \o history0
              \o <<Turn("user", full_message)>>

\* C7: once generate_response has returned, with a model's answer or with the
\* fallback, the user's memory ends with the user turn sent to the models
\* followed by an assistant turn holding the text handed to send_message.
C7_MemoryEndsWithReply ==
    gen_result \in {"model", "fallback"} =>
        LET m == conversation_memory[sender_id].messages
        IN  /\ Len(m) >= 2
            /\ m[Len(m) - 1] = Turn("user", full_message)
            /\ m[Len(m)] = Turn("assistant", response_text)

\* C10: whatever the Send API and the completion API do during a turn, no
\* failure leaves handle_messages: no request that began a turn ends with an
\* error status.
C10_NoFailurePropagates ==
    turns # <<>> => status # "500"

\* ------------------------------------------------------------------------
\* SpecMem: get_user_memory and add_to_memory called directly, from the memory
\* a user's first appends leave.  calls[u] is every turn appended for u since
\* its record was created or reset; op is the last call, with what it saw.
\* ------------------------------------------------------------------------

\* Appends before the behaviour starts, in turns of two: none, two, two short
\* of a full record, a full record.
MemLevels == {0, 1, (MEMORY_MAX_MESSAGES \div 2) - 1, MEMORY_MAX_MESSAGES \div 2}

MemTurns == {Turn("user", <<"h", "i">>), Turn("assistant", <<"o", "k">>)}

InitMem ==
    \E w \in MemLevels :
        /\ WarmReached(w)
        /\ conversation_memory = Warm(w).memory
        /\ processed_messages = {}
        /\ message_store = <<>>
        /\ Quiet(w)
        /\ op = NoOp
        /\ calls = [u \in Users |-> IF u = WarmUser THEN WarmTurns(w) ELSE <<>>]

MemGet(u) ==
    /\ op.n < MaxOps
    /\ LET got == get_user_memory(conversation_memory, u, now)
           had == u \in DOMAIN conversation_memory
           before == IF had THEN conversation_memory[u] ELSE FreshRecord(now)
           expired == had /\ now - before.last_active > MEMORY_IDLE_TIMEOUT
       IN  /\ conversation_memory' = got.memory
           /\ op' = [name |-> "get", n |-> op.n + 1, user |-> u, had |-> had,
                     before |-> before, at |-> now, returned |-> got.history,
                     expired |-> expired]
           /\ calls' = IF expired \/ ~had THEN [calls EXCEPT ![u] = <<>>] ELSE calls
    /\ UNCHANGED <<processed_messages, message_store, now, pc, queue, locals,
                   status, logs, platform, concurrent>>

MemAdd(u, turn) ==
    /\ op.n < MaxOps
    /\ conversation_memory' =
           add_to_memory(conversation_memory, u, turn.role, turn.content, now)
    /\ LET after == op.name = "get" /\ op.user = u /\ op.expired
       IN  op' = [name |-> "add", n |-> op.n + 1, user |-> u, turn |-> turn,
                  after_expiry |-> after,
                  dropped |-> IF after THEN Len(op.before.messages) ELSE 0]
    /\ calls' = [calls EXCEPT ![u] = Append(@, turn)]
    /\ UNCHANGED <<processed_messages, message_store, now, pc, queue, locals,
                   status, logs, platform, concurrent>>

MemTick(d) ==
    /\ now + d <= MaxTicks * (MEMORY_IDLE_TIMEOUT + 1)
    /\ now' = now + d
    /\ UNCHANGED <<stores, pc, queue, locals, status, logs, platform, driver>>

NextMem ==
    \/ \E u \in Users : MemGet(u)
    \/ \E u \in Users, turn \in MemTurns : MemAdd(u, turn)
    \/ \E d \in {MEMORY_IDLE_TIMEOUT, MEMORY_IDLE_TIMEOUT + 1} : MemTick(d)

SpecMem == InitMem /\ [][NextMem]_vars

\* C1: after N appends for a user with no idle expiry in between, the stored
\* history has min(N, MEMORY_MAX_MESSAGES) turns, never more than
\* MEMORY_MAX_MESSAGES, and they are the last appended, in order.
C1_HistoryIsLastAppended ==
    \A u \in DOMAIN conversation_memory :
        LET h == conversation_memory[u].messages
            a == calls[u]
        IN  /\ Len(h) = Min(Len(a), MEMORY_MAX_MESSAGES)
            /\ Len(h) <= MEMORY_MAX_MESSAGES
            /\ \A i \in 1..Len(h) : h[i] = a[Len(a) - Len(h) + i]

\* C1's case: an append that took a user past MEMORY_MAX_MESSAGES turns.
C1_Witness ==
    /\ op.name = "add"
    /\ Len(calls[op.user]) > MEMORY_MAX_MESSAGES
    /\ Len(conversation_memory[op.user].messages) = MEMORY_MAX_MESSAGES

\* C2: get_user_memory on a record idle for more than MEMORY_IDLE_TIMEOUT
\* returns an empty history and leaves an empty record, and the next
\* add_to_memory for that user leaves the one new turn; on a record idle for
\* MEMORY_IDLE_TIMEOUT or less it returns the stored turns and changes nothing.
C2_IdleExpiry ==
    /\ (op.name = "get" /\ op.had) =>
          IF op.at - op.before.last_active > MEMORY_IDLE_TIMEOUT
          THEN /\ op.returned = <<>>
               /\ conversation_memory[op.user].messages = <<>>
          ELSE /\ op.returned = op.before.messages
               /\ conversation_memory[op.user] = op.before
    /\ (op.name = "add" /\ op.after_expiry) =>
          conversation_memory[op.user].messages = <<op.turn>>

\* C2's case: a record that held turns expired, and a turn was appended next.
C2_Witness ==
    /\ op.name = "add"
    /\ op.after_expiry
    /\ op.dropped > 0

\* ------------------------------------------------------------------------
\* SpecCache: cache_message called directly, from the cache a number of
\* distinct mids leave.  calls is every mid cached since the cache was empty.
\* ------------------------------------------------------------------------

\* Items cached before the behaviour starts, in turns of two: none, two short
\* of MESSAGE_STORE_SIZE, MESSAGE_STORE_SIZE.
CacheLevels == {0, (MESSAGE_STORE_SIZE \div 2) - 1, MESSAGE_STORE_SIZE \div 2}

InitCache ==
    \E w \in CacheLevels :
        /\ WarmReached(w)
        /\ conversation_memory = NoMemory
        /\ processed_messages = {}
        /\ message_store = Warm(w).store
        /\ Quiet(w)
        /\ op = NoOp
        /\ calls = [i \in 1..(2 * w) |-> WarmItems(w)[i].mid]

\* The mids of a call: a new one, or one the cache holds, its oldest or newest.
CacheMids ==
    {<<"in", next_in>>}
      \cup (IF message_store = <<>> THEN {}
            ELSE {message_store[1].mid, message_store[Len(message_store)].mid})

CachePut(mid, content, role) ==
    /\ op.n < MaxOps
    /\ message_store' = cache_message(message_store, mid, content, role)
    /\ op' = [name |-> "put", n |-> op.n + 1, mid |-> mid, before |-> message_store]
    /\ calls' = Append(calls, mid)
    /\ next_in' = IF mid = <<"in", next_in>> THEN next_in + 1 ELSE next_in
    /\ UNCHANGED <<conversation_memory, processed_messages, now, pc, queue, locals,
                   status, logs, next_out, last_event, n_events, concurrent>>

NextCache ==
    \E mid \in CacheMids, content \in {<<"h", "i">>, <<"o", "k">>},
       role \in {"user", "assistant"} : CachePut(mid, content, role)

SpecCache == InitCache /\ [][NextCache]_vars

Distinct(s) == \A i, j \in 1..Len(s) : s[i] = s[j] => i = j

\* C9: after MESSAGE_STORE_SIZE + 1 calls with pairwise distinct mids from an
\* empty cache, the cache holds MESSAGE_STORE_SIZE items, the first mid is
\* gone and every other mid is there.
C9_OldestEvicted ==
    (Len(calls) = MESSAGE_STORE_SIZE + 1 /\ Distinct(calls)) =>
        /\ Len(message_store) = MESSAGE_STORE_SIZE
        /\ calls[1] \notin StoreKeys(message_store)
        /\ \A i \in 2..Len(calls) : calls[i] \in StoreKeys(message_store)

\* C9's case: the call with the (MESSAGE_STORE_SIZE + 1)th distinct mid is made.
C9_Witness ==
    /\ Len(calls) = MESSAGE_STORE_SIZE + 1
    /\ Distinct(calls)
    /\ op.name = "put"
    /\ Len(op.before) = MESSAGE_STORE_SIZE

\* ------------------------------------------------------------------------
\* SpecSend: send_message called directly with replies of chosen lengths.
\* sink_log is the outbound calls of the last call of send_message.
\* ------------------------------------------------------------------------

\* Reply lengths around the multiples of CHUNK_SIZE.
ReplyLengths ==
    {0, 1, CHUNK_SIZE - 1, CHUNK_SIZE, CHUNK_SIZE + 1, 2 * CHUNK_SIZE,
     2 * CHUNK_SIZE + 1, 2 * CHUNK_SIZE + (CHUNK_SIZE \div 4)}

\* A reply of n characters no two slices of which are equal.
ReplyOfLength(n) == [k \in 1..n |-> <<"a", "b", "c", "d", "e", "f", "g">>[(k % 7) + 1]]

InitSend ==
    /\ conversation_memory = NoMemory
    /\ processed_messages = {}
    /\ message_store = <<>>
    /\ Quiet(0)
    /\ op = NoOp
    /\ calls = <<>>

\* send_message(recipient_id, text) is entered.
SendCall(recipient_id, text) ==
    /\ pc = "idle"
    /\ op.n < MaxSends
    /\ sender_id' = recipient_id
    /\ response_text' = text
    /\ chunk_i' = 1
    /\ sink_log' = <<>>
    /\ pc' = AfterGenerate(text)
    /\ op' = [name |-> "send", n |-> op.n + 1]
    /\ UNCHANGED <<stores, now, queue, message_id, full_message, messages, model_i,
                   gen_result, status, turns, groq_log, last_outcome, history0,
                   platform, calls, concurrent>>

\* send_message returns to the driver.
SendReturn ==
    /\ op.name = "send"
    /\ pc = "typing_off"
    /\ pc' = "idle"
    /\ UNCHANGED <<stores, now, queue, locals, status, logs, platform, driver>>

NextSend ==
    \/ \E u \in Users, n \in ReplyLengths : SendCall(u, ReplyOfLength(n))
    \/ \E outcome \in SendOutcomes : SendChunk(outcome)
    \/ SendReturn

SpecSend == InitSend /\ [][NextSend]_vars

RECURSIVE Flatten(_)
Flatten(segs) == IF segs = <<>> THEN <<>> ELSE Head(segs) \o Flatten(Tail(segs))

\* The texts of the outbound message calls so far, in call order.
Segments == [i \in 1..Len(sink_log) |-> sink_log[i].text]

\* C8: once send_message has gone through a reply of length L it has made
\* ceil(L / 2000) outbound calls, one per segment in order; every segment has
\* 1 to 2000 characters, only the last may have fewer than 2000, and the
\* segments concatenated in send order are the reply.
C8_ChunkedInOrder ==
    (op.name = "send" /\ pc # "send") =>
        LET L == Len(response_text)
        IN  /\ \A i \in 1..Len(sink_log) :
                   sink_log[i].kind = "message" /\ sink_log[i].recipient = sender_id
            /\ Len(Segments) * CHUNK_SIZE >= L
            /\ (Len(Segments) - 1) * CHUNK_SIZE < L
            /\ \A i \in 1..Len(Segments) :
                   /\ Len(Segments[i]) >= 1
                   /\ Len(Segments[i]) <= CHUNK_SIZE
                   /\ i < Len(Segments) => Len(Segments[i]) = CHUNK_SIZE
            /\ Flatten(Segments) = response_text

\* C8's case: a reply of 4500 characters has gone out as 2000, 2000, 500.
C8_Witness ==
    /\ op.name = "send"
    /\ pc = "idle"
    /\ Len(response_text) = 4500
    /\ Len(Segments) = 3
    /\ Len(Segments[1]) = 2000 /\ Len(Segments[2]) = 2000 /\ Len(Segments[3]) = 500

\* ------------------------------------------------------------------------
\* SpecMalformed: requests whose text event may lack the mid, the sender id,
\* or both.
\* ------------------------------------------------------------------------

\* A text event with the mid or the sender id it was delivered without.
BareEvent(mid, sender, text) ==
    [kind |-> "text", mid |-> mid, sender |-> sender, text |-> text,
     reply_to |-> NoReply]

MalformedEvents(nxt) ==
    {BareEvent(NoMid, u, t) : u \in Users \cup {NoSender}, t \in Texts}
      \cup {BareEvent(<<"in", nxt>>, NoSender, t) : t \in Texts}

LacksField(ev) == ev.mid = NoMid \/ ev.sender = NoSender

NextMalformed ==
    \/ \E ev \in MalformedEvents(next_in)
                    \cup NextEvents(last_event, next_in, next_out) :
           HandleRequest(<<ev>>)
    \/ HandlerStep

SpecMalformed == Init /\ [][NextMalformed]_vars

\* C11: a text event without a mid or without a sender id is skipped: no turn
\* begins for it, the dedup set does not take it in, and the request it came
\* in does not end with an error status.
C11_MalformedSkipped ==
    /\ NoMid \notin processed_messages
    /\ \A i \in 1..Len(turns) : ~LacksField(turns[i])
    /\ (last_event # NoEvent /\ LacksField(last_event)) => status # "500"

\* ------------------------------------------------------------------------
\* Events the loop passes over
\* ------------------------------------------------------------------------

\* A delivery or read receipt, an event without a text body, or a text event
\* whose mid the dedup set holds.
IsPassedOver(ev) ==
    IF ev.kind \in {"receipt", "attachment"} THEN TRUE
    ELSE ev.mid \in processed_messages

\* C14: the step the handler takes on a receipt, on an event without text or
\* on an event whose mid is in the dedup set changes neither the memory, the
\* reply cache nor the dedup set, and issues no typing indicator, completion
\* request or outbound message: the loop moves to the next event.
C14_SkipHasNoEffect ==
    [][(pc = "loop" /\ queue # <<>> /\ IsPassedOver(Head(queue))) =>
          /\ conversation_memory' = conversation_memory
          /\ message_store' = message_store
          /\ processed_messages' = processed_messages
          /\ sink_log' = sink_log
          /\ groq_log' = groq_log
          /\ turns' = turns
          /\ pc' = "loop"
          /\ queue' = Tail(queue)]_vars

\* C14's case: a request whose one event was passed over has returned.
C14_Witness ==
    /\ pc = "idle"
    /\ status = "200"
    /\ n_events = 1
    /\ turns = <<>>
    /\ sink_log = <<>>
    /\ groq_log = <<>>

\* ------------------------------------------------------------------------
\* SpecLong: the handler when the models answer with a reply of three chunks
\* ------------------------------------------------------------------------

LongContents == {ReplyOfLength(2 * CHUNK_SIZE + 1)}

\* A completion request: answered with the long reply, or with 429.
LongOutcomes ==
    {[kind |-> "ok", content |-> c] : c \in LongContents}
      \cup {[kind |-> "rate_limited", content |-> <<>>]}

\* Requests of one new text event that replies to nothing.
NextLong ==
    \/ \E u \in Users, t \in Texts :
          HandleRequest(<<TextEvent(next_in, u, t, NoReply)>>)
    \/ BeginTurn
    \/ \E outcome \in ActionOutcomes : TypingOn(outcome)
    \/ StartGenerate
    \/ \E outcome \in LongOutcomes : GroqRequest(outcome)
    \/ \E outcome \in SendOutcomes : SendChunk(outcome)
    \/ \E outcome \in ActionOutcomes : TypingOff(outcome)
    \/ ReturnSuccess

\* The stores of a new user, and of a user with one earlier turn.
InitLong == \E w \in {0, 1} : InitAt(w)

SpecLong == InitLong /\ [][NextLong]_vars

\* The outbound message calls of the turn so far.
MessageCalls == SelectSeq(sink_log, LAMBDA c : c.kind = "message")

\* C15: whether a call of send_message's loop fails or not, the loop goes on
\* to the next segment: the segments attempted so far are the first segments
\* of the reply, each once and in order, and a step of the loop changes
\* neither the dedup set nor the memory, so the mid marked and the turns
\* appended earlier in the turn stay.
C15_NoRetryNoRollback ==
    /\ [](pc \in {"send", "typing_off"} =>
            LET chunks == Chunks(response_text)
                n == IF pc = "send" THEN chunk_i - 1 ELSE Len(chunks)
            IN  /\ Len(MessageCalls) = n
                /\ \A i \in 1..n : MessageCalls[i].text = chunks[i])
    /\ [][pc = "send" =>
            /\ processed_messages' = processed_messages
            /\ conversation_memory' = conversation_memory
            /\ Len(sink_log') = Len(sink_log) + 1
            /\ IF chunk_i < Len(Chunks(response_text))
               THEN pc' = "send" /\ chunk_i' = chunk_i + 1
               ELSE pc' = "typing_off"]_vars

\* C15's case: the first of three segments failed, the other two went out,
\* and the turn's mid and its two turns are where the turn put them.
C15_Witness ==
    /\ pc = "typing_off"
    /\ Len(MessageCalls) = 3
    /\ MessageCalls[1].result = "failed"
    /\ MessageCalls[2].result # "failed"
    /\ MessageCalls[3].result # "failed"
    /\ message_id \in processed_messages
    /\ LET m == conversation_memory[sender_id].messages
       IN  /\ m[Len(m) - 1] = Turn("user", full_message)
           /\ m[Len(m)] = Turn("assistant", response_text)

\* ------------------------------------------------------------------------
\* SpecReply: events that reply to a message, from reply caches up to a full
\* one
\* ------------------------------------------------------------------------

\* Turns before the behaviour starts: one, one short of the turns that fill
\* the reply cache, and the turns that fill it.
ReplyLevels == {1, (MESSAGE_STORE_SIZE \div 2) - 1, MESSAGE_STORE_SIZE \div 2}

InitReply == \E w \in ReplyLevels : InitAt(w)

\* The mids an event may reply to: the oldest and the newest item of the
\* cache, and a mid that was never cached.
ReplyTargets ==
    {message_store[1].mid, message_store[Len(message_store)].mid, <<"in", 0>>}

\* Requests of one event: a new reply, or the last text event again.
ReplyEvents ==
    {TextEvent(next_in, u, t, r) : u \in Users, t \in Texts, r \in ReplyTargets}
      \cup {last_event}

NextReply ==
    \/ \E ev \in ReplyEvents : HandleRequest(<<ev>>)
    \/ HandlerStep

SpecReply == InitReply /\ [][NextReply]_vars

\* The line the claim puts before the text: the speaker, and the first
\* characters of the cached content, 100 at most.
ContextLine(target) ==
    <<"[", "R", "e", "p", "l", "y", "i", "n", "g", " ", "t", "o", " ">>
      \o (IF target.role = "assistant" THEN <<"B", "o", "t">>
          ELSE <<"U", "s", "e", "r">>)
      \o <<":", " ", "\"">>
      \o SubSeq(target.content, 1, Min(Len(target.content), 100))
      \o <<"\"", "]", "\n">>

\* C16: the text a turn passes on for an event whose reply target the cache
\* held when the event arrived is the context line followed by the inbound
\* text; it is the inbound text alone only when the cache did not hold the
\* target then.
C16_ReplyContextPrefixed ==
    \A i \in 1..Len(turns) :
        IF turns[i].target # NoTarget
        THEN turns[i].prompt = ContextLine(turns[i].target) \o turns[i].text
        ELSE turns[i].prompt = turns[i].text

\* ------------------------------------------------------------------------
\* Typing indicators and cached replies of a turn
\* ------------------------------------------------------------------------

\* C17: a turn's typing_on comes before its first completion request, its
\* outbound reply segments come after typing_on and before typing_off, all
\* for the one recipient, and once the handler has left a turn that requested
\* a completion, the typing_on has been followed by a typing_off.
C17_TypingBracket ==
    /\ groq_log # <<>> => (sink_log # <<>> /\ sink_log[1].kind = "typing_on")
    /\ \A i \in 1..Len(sink_log) :
          /\ sink_log[i].recipient = sender_id
          /\ sink_log[i].kind = "message" =>
                /\ i > 1
                /\ sink_log[1].kind = "typing_on"
                /\ \A j \in 1..i : sink_log[j].kind # "typing_off"
    /\ (pc \in {"idle", "loop"} /\ groq_log # <<>>) =>
          sink_log[Len(sink_log)].kind = "typing_off"

\* What the reply cache holds for the message_id of an outbound call.
IsCachedReply(call) ==
    /\ call.mid \in StoreKeys(message_store)
    /\ StoreGet(message_store, call.mid).role = "assistant"
    /\ StoreGet(message_store, call.mid).content = call.text
    /\ FullMessage(message_store, call.mid, <<"?">>) =
          ContextLine([role |-> "assistant", content |-> call.text]) \o <<"?">>

\* C18 as stated: every reply segment whose outbound call succeeded is in the
\* reply cache under the message id the sink returned, with role assistant
\* and the segment's text, and an event replying to that id is resolved as a
\* reply to the Bot.
C18_EverySentCached ==
    \A i \in 1..Len(sink_log) :
        (sink_log[i].kind = "message" /\ sink_log[i].result # "failed") =>
            IsCachedReply(sink_log[i])

\* C18, amended: every reply segment whose outbound call succeeded with a
\* response that carries a message_id is in the reply cache under that id,
\* with role assistant and the segment's text, and an event replying to that
\* id is resolved as a reply to the Bot; a call that failed, or whose
\* response carries no message_id, leaves the reply cache as it was.
C18_SentWithIdCached ==
    /\ [](\A i \in 1..Len(sink_log) :
            (sink_log[i].kind = "message" /\ sink_log[i].result = "ok_with_id") =>
                IsCachedReply(sink_log[i]))
    /\ [][(pc = "send" /\ sink_log'[Len(sink_log')].result # "ok_with_id") =>
            message_store' = message_store]_vars

\* C18's case: a turn has ended whose reply went out and came back with a
\* message_id, and the reply cache holds it.
C18_Witness ==
    /\ pc = "idle"
    /\ status = "200"
    /\ \E i \in 1..Len(sink_log) :
          /\ sink_log[i].kind = "message"
          /\ sink_log[i].result = "ok_with_id"
          /\ IsCachedReply(sink_log[i])

\* ------------------------------------------------------------------------
\* Sizes of the dedup set and of the reply cache
\* ------------------------------------------------------------------------

\* C19: the dedup set never holds more than MESSAGE_CACHE_SIZE ids; a turn
\* that recorded its mid in a full set made the set drop one id it held
\* before, and a turn that recorded its mid in a set that was not full made
\* it drop none.
C19_DedupBounded ==
    /\ Cardinality(processed_messages) <= MESSAGE_CACHE_SIZE
    /\ \A i \in 1..Len(turns) :
          IF turns[i].held >= MESSAGE_CACHE_SIZE
          THEN turns[i].victim # NoReply /\ turns[i].victim # turns[i].mid
          ELSE turns[i].victim = NoReply

\* C20: after any call of cache_message the reply cache holds at most
\* MESSAGE_STORE_SIZE items; a call with a mid the cache holds changes that
\* mid's item alone, and a call drops an item only when the cache was at
\* capacity and did not hold the mid.
C20_EvictsOnlyForNewMid ==
    op.name = "put" =>
        /\ Len(message_store) <= MESSAGE_STORE_SIZE
        /\ op.mid \in StoreKeys(op.before) =>
              /\ StoreKeys(message_store) = StoreKeys(op.before)
              /\ \A m \in StoreKeys(op.before) \ {op.mid} :
                    StoreGet(message_store, m) = StoreGet(op.before, m)
        /\ ~(StoreKeys(op.before) \subseteq StoreKeys(message_store)) =>
              /\ Len(op.before) >= MESSAGE_STORE_SIZE
              /\ op.mid \notin StoreKeys(op.before)

\* ------------------------------------------------------------------------
\* SpecThreads: two requests served at a time, as the threaded development
\* server of app.run does.  handle_messages takes no lock.  A step of a thread
\* is one statement that reads or writes a store, with the statements around
\* it that touch the thread's locals only.  Each thread serves one request of
\* one text event; the clock stands still; of the logs only turns is kept.
\* calls[u] is the history of u when the behaviour starts, threads[t].added
\* the turns thread t has appended since.
\* ------------------------------------------------------------------------

\* Turns before the behaviour starts: none, and as many as fill a record.
ThreadLevels == {0, MEMORY_MAX_MESSAGES \div 2}

InitThreads ==
    \E w \in ThreadLevels :
        /\ WarmReached(w)
        /\ conversation_memory = Warm(w).memory
        /\ processed_messages = Warm(w).processed
        /\ message_store = Warm(w).store
        /\ Quiet(w)
        /\ op = NoOp
        /\ calls = [u \in Users |-> IF u = WarmUser THEN WarmTurns(w) ELSE <<>>]

\* What a thread may be handed: a new message of the user, or the last event
\* again while the thread that got it first may still be at work.
ThreadEvents(last, nxt) ==
    {TextEvent(nxt, WarmUser, t, NoReply) : t \in Texts}
      \cup (IF last = NoEvent THEN {} ELSE {last})

ThreadGroqOutcomes ==
    {[kind |-> "ok", content |-> <<" ", "o", "k", "\n">>],
     [kind |-> "rate_limited", content |-> <<>>]}

ThreadSendOutcomes == {"ok_with_id", "http_error"}

\* Lines 151-159: a request reaches a free thread.
ThreadRequest(t, ev) ==
    /\ threads[t].pc = "idle"
    /\ threads' = [threads EXCEPT ![t] = [IdleThread EXCEPT !.pc = "loop", !.ev = ev]]
    /\ n_events' = n_events + 1
    /\ next_in' = IF IsNew(ev, next_in) THEN next_in + 1 ELSE next_in
    /\ last_event' = ev
    /\ UNCHANGED <<stores, now, pc, queue, locals, status, logs, next_out, op,
                   calls, record_id>>

\* Lines 160-166: the tests that pass over an event, the one of the dedup set
\* the last.
ThreadCheck(t) ==
    /\ threads[t].pc = "loop"
    /\ threads' = [threads EXCEPT ![t].pc =
                      IF Skips(threads[t].ev) THEN "return" ELSE "mark"]
    /\ UNCHANGED <<stores, now, pc, queue, locals, status, logs, platform, op,
                   calls, record_id>>

\* Line 168: processed_messages.add(message_id).  The turn has begun.
ThreadMark(t) ==
    /\ threads[t].pc = "mark"
    /\ processed_messages' = processed_messages \cup {threads[t].ev.mid}
    /\ turns' = Append(turns, TurnEntry(threads[t].ev, <<>>, NoReply))
    /\ threads' = [threads EXCEPT ![t].pc = "pop"]
    /\ UNCHANGED <<conversation_memory, message_store, now, pc, queue, locals,
                   status, groq_log, last_outcome, sink_log, history0, platform,
                   op, calls, record_id>>

\* Lines 169-170: pop() when the set has outgrown MESSAGE_CACHE_SIZE.
ThreadPop(t) ==
    /\ threads[t].pc = "pop"
    /\ \E victim \in (IF PopVictims(processed_messages) = {} THEN {NoReply}
                      ELSE PopVictims(processed_messages)) :
          processed_messages' = processed_messages \ {victim}
    /\ threads' = [threads EXCEPT ![t].pc = "cache"]
    /\ UNCHANGED <<conversation_memory, message_store, now, pc, queue, locals,
                   status, logs, platform, op, calls, record_id>>

\* Lines 172-190: the sender, the message cached, the reply context.
ThreadCache(t) ==
    /\ threads[t].pc = "cache"
    /\ LET ev == threads[t].ev
           store1 == cache_message(message_store, ev.mid, ev.text, "user")
       IN  /\ message_store' = store1
           /\ threads' = [threads EXCEPT
                             ![t].full_message = FullMessage(store1, ev.reply_to, ev.text),
                             ![t].pc = "typing_on"]
    /\ UNCHANGED <<conversation_memory, processed_messages, now, pc, queue, locals,
                   status, logs, platform, op, calls, record_id>>

\* Line 195: send_action(sender_id, "typing_on").
ThreadTypingOn(t) ==
    /\ threads[t].pc = "typing_on"
    /\ threads' = [threads EXCEPT ![t].pc = "get"]
    /\ UNCHANGED <<stores, now, pc, queue, locals, status, logs, platform, op,
                   calls, record_id>>

\* get_user_memory, line 42: if user_id in conversation_memory.
ThreadGetTest(t) ==
    /\ threads[t].pc = "get"
    /\ threads' = [threads EXCEPT ![t].pc =
                      IF threads[t].ev.sender \in DOMAIN conversation_memory
                      THEN "get_hit" ELSE "get_create"]
    /\ UNCHANGED <<stores, now, pc, queue, locals, status, logs, platform, op,
                   calls, record_id>>

\* get_user_memory, lines 43-49: the record is there; it is replaced by a new
\* one when it has expired.  generate_response goes on to add_to_memory with
\* the user turn.
ThreadGetHit(t) ==
    /\ threads[t].pc = "get_hit"
    /\ LET u == threads[t].ev.sender
       IN  IF IsExpired(now, conversation_memory[u].last_active)
           THEN /\ conversation_memory' =
                       [conversation_memory EXCEPT ![u] = FreshRecord(now)]
                /\ record_id' = [record_id EXCEPT ![u] = @ + 1]
           ELSE UNCHANGED <<conversation_memory, record_id>>
    /\ threads' = [threads EXCEPT
                      ![t].adding = Turn("user", threads[t].full_message),
                      ![t].after_add = "request",
                      ![t].model_i = 1,
                      ![t].pc = "add_load"]
    /\ UNCHANGED <<processed_messages, message_store, now, pc, queue, locals,
                   status, logs, platform, op, calls>>

\* get_user_memory, lines 52-53: the test of line 42 found no record, and a new
\* record dict is stored for the user, whatever the memory holds for it by now.
ThreadGetCreate(t) ==
    /\ threads[t].pc = "get_create"
    /\ LET u == threads[t].ev.sender
       IN  /\ conversation_memory' =
                  IF u \in DOMAIN conversation_memory
                  THEN [conversation_memory EXCEPT ![u] = FreshRecord(now)]
                  ELSE conversation_memory @@ (u :> FreshRecord(now))
           /\ record_id' = [record_id EXCEPT ![u] = @ + 1]
    /\ threads' = [threads EXCEPT
                      ![t].adding = Turn("user", threads[t].full_message),
                      ![t].after_add = "request",
                      ![t].model_i = 1,
                      ![t].pc = "add_load"]
    /\ UNCHANGED <<processed_messages, message_store, now, pc, queue, locals,
                   status, logs, platform, op, calls>>

\* add_to_memory, lines 57-60: user_data = conversation_memory[user_id], the
\* record dict the memory holds for the user at this moment.
ThreadAddLoad(t) ==
    /\ threads[t].pc = "add_load"
    /\ LET u == threads[t].ev.sender
       IN  IF u \in DOMAIN conversation_memory
           THEN /\ threads' = [threads EXCEPT ![t].user_data = record_id[u],
                                               ![t].pc = "add_append"]
                /\ UNCHANGED <<conversation_memory, record_id>>
           ELSE /\ conversation_memory' =
                       conversation_memory @@ (u :> FreshRecord(now))
                /\ record_id' = [record_id EXCEPT ![u] = @ + 1]
                /\ threads' = [threads EXCEPT ![t].user_data = record_id[u] + 1,
                                               ![t].pc = "add_append"]
    /\ UNCHANGED <<processed_messages, message_store, now, pc, queue, locals,
                   status, logs, platform, op, calls>>

\* add_to_memory, lines 61-62: the touch and the append go to the dict that
\* user_data names.  They show in conversation_memory when that dict is still
\* the one the memory holds for the user.
ThreadAddAppend(t) ==
    /\ threads[t].pc = "add_append"
    /\ LET u == threads[t].ev.sender
       IN  conversation_memory' =
               IF threads[t].user_data = record_id[u]
               THEN [conversation_memory EXCEPT ![u] =
                        [messages |-> Append(@.messages, threads[t].adding),
                         last_active |-> now]]
               ELSE conversation_memory
    /\ threads' = [threads EXCEPT ![t].added = Append(@, threads[t].adding),
                                   ![t].pc = "add_trim"]
    /\ UNCHANGED <<processed_messages, message_store, now, pc, queue, locals,
                   status, logs, platform, op, calls, record_id>>

\* add_to_memory, lines 65-66: the trim, of the dict that user_data names.
ThreadAddTrim(t) ==
    /\ threads[t].pc = "add_trim"
    /\ LET u == threads[t].ev.sender
       IN  conversation_memory' =
               IF threads[t].user_data = record_id[u]
               THEN [conversation_memory EXCEPT ![u].messages = TrimMessages(@)]
               ELSE conversation_memory
    /\ threads' = [threads EXCEPT ![t].pc = threads[t].after_add]
    /\ UNCHANGED <<processed_messages, message_store, now, pc, queue, locals,
                   status, logs, platform, op, calls, record_id>>

\* generate_response, lines 81-122: one pass of the loop over
\* GROQ_MODEL_HIERARCHY.  An answer goes to add_to_memory as the assistant
\* turn before it is returned.
ThreadGroq(t, outcome) ==
    /\ threads[t].pc = "request"
    /\ threads' =
           IF GroqRaises(outcome)
           THEN [threads EXCEPT ![t].pc = "done", ![t].status = "500"]
           ELSE IF TriesNext(outcome)
           THEN IF threads[t].model_i < Len(GROQ_MODEL_HIERARCHY)
                THEN [threads EXCEPT ![t].model_i = @ + 1]
                ELSE [threads EXCEPT ![t].response_text = FALLBACK_RESPONSE,
                                     ![t].chunk_i = 1,
                                     ![t].pc = AfterGenerate(FALLBACK_RESPONSE)]
           ELSE [threads EXCEPT
                    ![t].adding = Turn("assistant", Strip(outcome.content)),
                    ![t].after_add = AfterGenerate(Strip(outcome.content)),
                    ![t].response_text = Strip(outcome.content),
                    ![t].chunk_i = 1,
                    ![t].pc = "add_load"]
    /\ UNCHANGED <<stores, now, pc, queue, locals, status, logs, platform, op,
                   calls, record_id>>

\* send_message, lines 210-226: one pass of its loop.
ThreadSend(t, outcome) ==
    /\ threads[t].pc = "send"
    /\ LET chunks == Chunks(threads[t].response_text)
           chunk == chunks[threads[t].chunk_i]
       IN  /\ IF Caches(outcome)
              THEN /\ message_store' = cache_message(message_store, <<"out", next_out>>,
                                                     chunk, "assistant")
                   /\ next_out' = next_out + 1
              ELSE UNCHANGED <<message_store, next_out>>
           /\ threads' =
                  IF threads[t].chunk_i < Len(chunks)
                  THEN [threads EXCEPT ![t].chunk_i = @ + 1]
                  ELSE [threads EXCEPT ![t].pc = "typing_off"]
    /\ UNCHANGED <<conversation_memory, processed_messages, now, pc, queue, locals,
                   status, logs, next_in, last_event, n_events, op, calls,
                   record_id>>

\* Line 201: send_action(sender_id, "typing_off").
ThreadTypingOff(t) ==
    /\ threads[t].pc = "typing_off"
    /\ threads' = [threads EXCEPT ![t].pc = "return"]
    /\ UNCHANGED <<stores, now, pc, queue, locals, status, logs, platform, op,
                   calls, record_id>>

\* Line 203: return jsonify({'status': 'success'}), 200.
ThreadReturn(t) ==
    /\ threads[t].pc = "return"
    /\ threads' = [threads EXCEPT ![t].pc = "done", ![t].status = "200"]
    /\ UNCHANGED <<stores, now, pc, queue, locals, status, logs, platform, op,
                   calls, record_id>>

NextThreads ==
    \E t \in Threads :
        \/ \E ev \in ThreadEvents(last_event, next_in) : ThreadRequest(t, ev)
        \/ ThreadCheck(t)
        \/ ThreadMark(t)
        \/ ThreadPop(t)
        \/ ThreadCache(t)
        \/ ThreadTypingOn(t)
        \/ ThreadGetTest(t)
        \/ ThreadGetHit(t)
        \/ ThreadGetCreate(t)
        \/ ThreadAddLoad(t)
        \/ ThreadAddAppend(t)
        \/ ThreadAddTrim(t)
        \/ \E outcome \in ThreadGroqOutcomes : ThreadGroq(t, outcome)
        \/ \E outcome \in ThreadSendOutcomes : ThreadSend(t, outcome)
        \/ ThreadTypingOff(t)
        \/ ThreadReturn(t)

SpecThreads == InitThreads /\ [][NextThreads]_vars

\* The turns begun for a mid.
TurnsOf(mid) == {i \in 1..Len(turns) : turns[i].mid = mid}

\* C12: when two requests that carry the same mid are served at the same
\* time, the test of the dedup set and the recording of the mid act as one
\* step: one of the two begins a turn for the mid and the other passes over
\* the event, so no mid has two turns, and the mid is recorded once both are
\* through.
C12_OneTurnPerMid ==
    \A a, b \in Threads :
        (a # b /\ threads[a].ev # NoEvent /\ threads[b].ev # NoEvent
              /\ threads[a].ev.mid = threads[b].ev.mid) =>
            /\ Cardinality(TurnsOf(threads[a].ev.mid)) <= 1
            /\ (threads[a].pc = "done" /\ threads[b].pc = "done") =>
                  threads[a].ev.mid \in processed_messages

\* The orders in which the calls of a and the calls of b can follow one
\* another when no two of them overlap.
RECURSIVE Interleavings(_, _)
Interleavings(a, b) ==
    IF a = <<>> THEN {b}
    ELSE IF b = <<>> THEN {a}
    ELSE {<<Head(a)>> \o s : s \in Interleavings(Tail(a), b)}
           \cup {<<Head(b)>> \o s : s \in Interleavings(a, Tail(b))}

\* The turns thread t has appended for user u.
AddedFor(t, u) ==
    IF threads[t].ev # NoEvent /\ threads[t].ev.sender = u
    THEN threads[t].added ELSE <<>>

\* C13: memory operations of one user that run at the same time act one after
\* another: once the threads are through, no append is lost, and the stored
\* history is the last min(N, MEMORY_MAX_MESSAGES) turns of the history the
\* user had followed by the appends in one of the orders in which the calls
\* can follow one another.
C13_AppendsSerial ==
    (\A t \in Threads : threads[t].pc \in {"idle", "done"}) =>
        \A u \in DOMAIN conversation_memory :
            \E s \in Interleavings(AddedFor("t1", u), AddedFor("t2", u)) :
                conversation_memory[u].messages =
                    LastN(calls[u] \o s, MEMORY_MAX_MESSAGES)

=============================================================================
